---- MODULE Spec2Model ----
(***************************************************************************)
(* Model of the ThingSpeak client of src/ThingSpeak.h: the staged          *)
(* multi-field write buffer, the request-body encoder, the write           *)
(* operations with their response interpretation, and the read operations. *)
(* C++ strings are TLA+ strings (Len, \o and SubSeq act on them as         *)
(* length(), += and substr()).  The HTTP transport (http_request.h) is an  *)
(* external collaborator: every request is answered by one response        *)
(* (status code, body text) drawn from Responses; a transport failure is   *)
(* a response with a negative status code.  Staged values hold no NUL      *)
(* byte, so the strlen(body.c_str()) bytes that are sent are the whole     *)
(* body.  A call that std::stoi / std::stof leaves by an exception is      *)
(* recorded with the result Throw(...), the object as it was at the throw. *)
(***************************************************************************)
EXTENDS Integers, Sequences, FiniteSets, TLC

(* ---------------- program constants (src/ThingSpeak.h:43-59) ----------- *)
FIELDNUM_MIN == 1
FIELDNUM_MAX == 8
FIELDLENGTH_MAX == 255
OK_SUCCESS == 200
ERR_BADAPIKEY == 400
ERR_BADURL == 404
ERR_OUT_OF_RANGE == -101
ERR_INVALID_FIELD_NUM == -201
ERR_SETFIELD_NOT_CALLED == -210
ERR_CONNECT_FAILED == -301
ERR_UNEXPECTED_FAIL == -302
ERR_TIMEOUT == -304
ERR_NOT_INSERTED == -401
TS_USER_AGENT == "tslib-mbed/2.0.0 (mbed)"
UPDATE_URL == "http://api.thingspeak.com/update"
CHANNELS_URL == "http://api.thingspeak.com/channels/"
INT_MAX == 2147483647

(* ---------------- bounds of the model --------------------------------- *)
\* number of library calls the client program makes in one run
MaxCalls == 3

(* ---------------- values ------------------------------------------------ *)
\* a float is either NaN or a number (only whole numbers are used as inputs)
NAN == [isnan |-> TRUE, val |-> 0]
Float(v) == [isnan |-> FALSE, val |-> v]
isnan(f) == f.isnan
\* the null pointer passed for an absent read API key
NULL == "<NULL>"

(* ---------------- std::to_string / std::stoi ---------------------------- *)
DigitChars == "0123456789"
DigitChar(d) == SubSeq(DigitChars, d + 1, d + 1)
CharAt(s, i) == SubSeq(s, i, i)
IsDigit(c) == c \in {"0", "1", "2", "3", "4", "5", "6", "7", "8", "9"}
DigitVal(c) == CHOOSE d \in 0..9 : DigitChar(d) = c
IsSpace(c) == c \in {" ", "\t", "\n", "\r", "\f"}

RECURSIVE NatToString(_)
NatToString(n) == IF n < 10 THEN DigitChar(n)
                  ELSE NatToString(n \div 10) \o DigitChar(n % 10)
\* std::to_string(int): decimal digits, '-' in front of a negative number
to_string(n) == IF n < 0 THEN "-" \o NatToString(-n) ELSE NatToString(n)

RECURSIVE SkipSpace(_, _)
\* index of the first character of s at or after i that is not white space
SkipSpace(s, i) == IF i <= Len(s) /\ IsSpace(CharAt(s, i)) THEN SkipSpace(s, i + 1) ELSE i

RECURSIVE DigitsEnd(_, _)
\* index just past the run of decimal digits of s that starts at i
DigitsEnd(s, i) == IF i <= Len(s) /\ IsDigit(CharAt(s, i)) THEN DigitsEnd(s, i + 1) ELSE i

INT_MIN == -INT_MAX - 1
\* marks a digit run whose value is beyond the range of an int
Overflow == 1

RECURSIVE DigitsValue(_, _, _, _)
\* minus the value of the digits s[i..j-1], accumulated left to right from
\* nacc (kept negative so that INT_MIN is reached), or Overflow
DigitsValue(s, i, j, nacc) ==
  IF i >= j THEN nacc
  ELSE LET d == DigitVal(CharAt(s, i))
       IN  IF nacc < -214748364 \/ (nacc = -214748364 /\ d > 8) THEN Overflow
           ELSE DigitsValue(s, i + 1, j, nacc * 10 - d)

\* std::stoi(s): skips white space, reads an optional sign and the longest
\* run of digits; throws std::invalid_argument when there is no digit and
\* std::out_of_range when the value does not fit an int.  Trailing text is ignored.
stoi(s) ==
  LET b == SkipSpace(s, 1)
      hasSign == b <= Len(s) /\ CharAt(s, b) \in {"+", "-"}
      neg == b <= Len(s) /\ CharAt(s, b) = "-"
      d == IF hasSign THEN b + 1 ELSE b
      e == DigitsEnd(s, d)
      nmag == DigitsValue(s, d, e, 0)
  IN  IF e = d THEN [ok |-> FALSE, exc |-> "invalid_argument", val |-> 0]
      ELSE IF nmag = Overflow \/ (~neg /\ nmag = INT_MIN)
           THEN [ok |-> FALSE, exc |-> "out_of_range", val |-> 0]
           ELSE [ok |-> TRUE, exc |-> "", val |-> IF neg THEN nmag ELSE -nmag]

\* std::stof(s) on the plain decimal forms: white space, optional sign,
\* digits, optional '.' and digits.  The float read is denoted by the
\* decimal literal that was consumed (lit).  Throws std::invalid_argument
\* when no digit can be read.
stof(s) ==
  LET b == SkipSpace(s, 1)
      hasSign == b <= Len(s) /\ CharAt(s, b) \in {"+", "-"}
      d == IF hasSign THEN b + 1 ELSE b
      e == DigitsEnd(s, d)
      hasDot == e <= Len(s) /\ CharAt(s, e) = "."
      fe == IF hasDot THEN DigitsEnd(s, e + 1) ELSE e
      nfrac == IF hasDot THEN fe - (e + 1) ELSE 0
  IN  IF e = d /\ nfrac = 0 THEN [ok |-> FALSE, exc |-> "invalid_argument", lit |-> ""]
      ELSE [ok |-> TRUE, exc |-> "", lit |-> SubSeq(s, b, fe - 1)]

(* ---------------- the ThingSpeak object --------------------------------- *)
VARIABLES nextWriteField, nextWriteLatitude, nextWriteLongitude, nextWriteElevation,
          nextWriteStatus, nextWriteTwitter, nextWriteTweet, nextWriteCreatedAt,
          lastReadStatus, net,
          \* what the client observes of its last call
          op, ret, req, resp, calls

vars == <<nextWriteField, nextWriteLatitude, nextWriteLongitude, nextWriteElevation,
          nextWriteStatus, nextWriteTwitter, nextWriteTweet, nextWriteCreatedAt,
          lastReadStatus, net, op, ret, req, resp, calls>>

FieldIdx == 0 .. (FIELDNUM_MAX - 1)

\* the object's data members as one record (src/ThingSpeak.h:1397-1407)
This == [nextWriteField |-> nextWriteField,
         nextWriteLatitude |-> nextWriteLatitude,
         nextWriteLongitude |-> nextWriteLongitude,
         nextWriteElevation |-> nextWriteElevation,
         nextWriteStatus |-> nextWriteStatus,
         nextWriteTwitter |-> nextWriteTwitter,
         nextWriteTweet |-> nextWriteTweet,
         nextWriteCreatedAt |-> nextWriteCreatedAt,
         lastReadStatus |-> lastReadStatus,
         net |-> net]

\* the object after a call is the record t
Assign(t) == /\ nextWriteField' = t.nextWriteField
             /\ nextWriteLatitude' = t.nextWriteLatitude
             /\ nextWriteLongitude' = t.nextWriteLongitude
             /\ nextWriteElevation' = t.nextWriteElevation
             /\ nextWriteStatus' = t.nextWriteStatus
             /\ nextWriteTwitter' = t.nextWriteTwitter
             /\ nextWriteTweet' = t.nextWriteTweet
             /\ nextWriteCreatedAt' = t.nextWriteCreatedAt
             /\ lastReadStatus' = t.lastReadStatus
             /\ net' = t.net

\* the PendingUpdate part of an object record
Pending(t) == [nextWriteField |-> t.nextWriteField,
               nextWriteLatitude |-> t.nextWriteLatitude,
               nextWriteLongitude |-> t.nextWriteLongitude,
               nextWriteElevation |-> t.nextWriteElevation,
               nextWriteStatus |-> t.nextWriteStatus,
               nextWriteTwitter |-> t.nextWriteTwitter,
               nextWriteTweet |-> t.nextWriteTweet,
               nextWriteCreatedAt |-> t.nextWriteCreatedAt]

(* ---------------- results, requests, responses -------------------------- *)
\* what a call gives back: kind says which of i (an int or bool result) and
\* s (a string result, the literal of a float result, or the exception's
\* name) is meant
RetInt(i) == [kind |-> "int", i |-> i, s |-> ""]
RetStr(s) == [kind |-> "string", i |-> 0, s |-> s]
RetBool(b) == [kind |-> "bool", i |-> IF b THEN 1 ELSE 0, s |-> ""]
RetFloat(lit) == [kind |-> "float", i |-> 0, s |-> lit]
\* the call did not return: the exception e left it
Throw(e) == [kind |-> "throw", i |-> 0, s |-> e]
RetNone == [kind |-> "none", i |-> 0, s |-> ""]

NoRequest == [method |-> "none", url |-> "", headers |-> {}, body |-> ""]
NoResponse == [status |-> 0, body |-> ""]

(* ---------------- the staged buffer -------------------------------------- *)
\* a resetWriteFields that forgets the status slot
resetWriteFields_keepsStatus(t) ==
  [t EXCEPT !.nextWriteField = [iField \in FieldIdx |-> ""],
            !.nextWriteLatitude = NAN,
            !.nextWriteLongitude = NAN,
            !.nextWriteElevation = NAN,
            !.nextWriteTwitter = "",
            !.nextWriteTweet = "",
            !.nextWriteCreatedAt = ""]

\* resetWriteFields(): every slot of the pending update back to empty / NAN
resetWriteFields(t) ==
  [t EXCEPT !.nextWriteField = [iField \in FieldIdx |-> ""],
            !.nextWriteLatitude = NAN,
            !.nextWriteLongitude = NAN,
            !.nextWriteElevation = NAN,
            !.nextWriteStatus = "",
            !.nextWriteTwitter = "",
            !.nextWriteTweet = "",
            !.nextWriteCreatedAt = ""]

\* the object the constructor leaves
Constructed == resetWriteFields([nextWriteField |-> [iField \in FieldIdx |-> ""],
                                 nextWriteLatitude |-> NAN,
                                 nextWriteLongitude |-> NAN,
                                 nextWriteElevation |-> NAN,
                                 nextWriteStatus |-> "",
                                 nextWriteTwitter |-> "",
                                 nextWriteTweet |-> "",
                                 nextWriteCreatedAt |-> "",
                                 lastReadStatus |-> OK_SUCCESS,
                                 net |-> NULL])

\* a begin that leaves lastReadStatus as it is
begin_keepsLastReadStatus(t, n) ==
  [this |-> [resetWriteFields(t) EXCEPT !.net = n], ret |-> RetBool(TRUE), req |-> NoRequest]

\* begin(net)
begin(t, n) ==
  [this |-> [resetWriteFields(t) EXCEPT !.lastReadStatus = OK_SUCCESS, !.net = n],
   ret |-> RetBool(TRUE), req |-> NoRequest]

\* a setField that ignores an empty value instead of storing it
setField_skipsEmpty(t, field, value) ==
  IF field < FIELDNUM_MIN \/ field > FIELDNUM_MAX
  THEN [this |-> t, ret |-> RetInt(ERR_INVALID_FIELD_NUM), req |-> NoRequest]
  ELSE IF Len(value) > FIELDLENGTH_MAX
       THEN [this |-> t, ret |-> RetInt(ERR_OUT_OF_RANGE), req |-> NoRequest]
       ELSE [this |-> IF value = "" THEN t ELSE [t EXCEPT !.nextWriteField[field - 1] = value],
             ret |-> RetInt(OK_SUCCESS), req |-> NoRequest]

\* a setField that refuses a value of exactly FIELDLENGTH_MAX bytes
setField_lengthOffByOne(t, field, value) ==
  IF field < FIELDNUM_MIN \/ field > FIELDNUM_MAX
  THEN [this |-> t, ret |-> RetInt(ERR_INVALID_FIELD_NUM), req |-> NoRequest]
  ELSE IF Len(value) >= FIELDLENGTH_MAX
       THEN [this |-> t, ret |-> RetInt(ERR_OUT_OF_RANGE), req |-> NoRequest]
       ELSE [this |-> [t EXCEPT !.nextWriteField[field - 1] = value],
             ret |-> RetInt(OK_SUCCESS), req |-> NoRequest]

\* a setField that clears the status slot along with storing the value
setField_clearsStatus(t, field, value) ==
  IF field < FIELDNUM_MIN \/ field > FIELDNUM_MAX
  THEN [this |-> t, ret |-> RetInt(ERR_INVALID_FIELD_NUM), req |-> NoRequest]
  ELSE IF Len(value) > FIELDLENGTH_MAX
       THEN [this |-> t, ret |-> RetInt(ERR_OUT_OF_RANGE), req |-> NoRequest]
       ELSE [this |-> [t EXCEPT !.nextWriteField[field - 1] = value, !.nextWriteStatus = ""],
             ret |-> RetInt(OK_SUCCESS), req |-> NoRequest]

\* setField(field, string value)
setField(t, field, value) ==
  IF field < FIELDNUM_MIN \/ field > FIELDNUM_MAX
  THEN [this |-> t, ret |-> RetInt(ERR_INVALID_FIELD_NUM), req |-> NoRequest]
  ELSE IF Len(value) > FIELDLENGTH_MAX
       THEN [this |-> t, ret |-> RetInt(ERR_OUT_OF_RANGE), req |-> NoRequest]
       ELSE [this |-> [t EXCEPT !.nextWriteField[field - 1] = value],
             ret |-> RetInt(OK_SUCCESS), req |-> NoRequest]

setLatitude(t, latitude) ==
  [this |-> [t EXCEPT !.nextWriteLatitude = latitude], ret |-> RetInt(OK_SUCCESS), req |-> NoRequest]

setLongitude(t, longitude) ==
  [this |-> [t EXCEPT !.nextWriteLongitude = longitude], ret |-> RetInt(OK_SUCCESS), req |-> NoRequest]

setElevation(t, elevation) ==
  [this |-> [t EXCEPT !.nextWriteElevation = elevation], ret |-> RetInt(OK_SUCCESS), req |-> NoRequest]

\* a setStatus without the length check
setStatus_noLengthCheck(t, status) ==
  [this |-> [t EXCEPT !.nextWriteStatus = status], ret |-> RetInt(OK_SUCCESS), req |-> NoRequest]

setStatus(t, status) ==
  IF Len(status) > FIELDLENGTH_MAX
  THEN [this |-> t, ret |-> RetInt(ERR_OUT_OF_RANGE), req |-> NoRequest]
  ELSE [this |-> [t EXCEPT !.nextWriteStatus = status], ret |-> RetInt(OK_SUCCESS), req |-> NoRequest]

\* a setTwitterTweet that stores the twitter name before it looks at the tweet
setTwitterTweet_storesTwitterFirst(t, twitter, tweet) ==
  IF Len(twitter) > FIELDLENGTH_MAX
  THEN [this |-> t, ret |-> RetInt(ERR_OUT_OF_RANGE), req |-> NoRequest]
  ELSE IF Len(tweet) > FIELDLENGTH_MAX
       THEN [this |-> [t EXCEPT !.nextWriteTwitter = twitter],
             ret |-> RetInt(ERR_OUT_OF_RANGE), req |-> NoRequest]
       ELSE [this |-> [t EXCEPT !.nextWriteTwitter = twitter, !.nextWriteTweet = tweet],
             ret |-> RetInt(OK_SUCCESS), req |-> NoRequest]

setTwitterTweet(t, twitter, tweet) ==
  IF Len(twitter) > FIELDLENGTH_MAX \/ Len(tweet) > FIELDLENGTH_MAX
  THEN [this |-> t, ret |-> RetInt(ERR_OUT_OF_RANGE), req |-> NoRequest]
  ELSE [this |-> [t EXCEPT !.nextWriteTwitter = twitter, !.nextWriteTweet = tweet],
        ret |-> RetInt(OK_SUCCESS), req |-> NoRequest]

setCreatedAt(t, createdAt) ==
  IF Len(createdAt) > FIELDLENGTH_MAX
  THEN [this |-> t, ret |-> RetInt(ERR_OUT_OF_RANGE), req |-> NoRequest]
  ELSE [this |-> [t EXCEPT !.nextWriteCreatedAt = createdAt], ret |-> RetInt(OK_SUCCESS), req |-> NoRequest]

RECURSIVE FieldsContentLen(_, _, _)
\* the loop over nextWriteField of getWriteFieldsContentLength, from iField on
FieldsContentLen(t, iField, contentLen) ==
  IF iField >= FIELDNUM_MAX THEN contentLen
  ELSE IF Len(t.nextWriteField[iField]) > 0
       THEN FieldsContentLen(t, iField + 1,
                contentLen + 8 + Len(t.nextWriteField[iField])
                  + (IF iField > 9 THEN 1 ELSE IF iField > 99 THEN 2 ELSE 0))
       ELSE FieldsContentLen(t, iField + 1, contentLen)

\* a MetaContentLen that counts "&lat=52" when a latitude is set (the block
\* the source has commented out)
MetaContentLen_countsLatitude(t, c0) ==
  LET c1 == IF Len(t.nextWriteStatus) > 0 THEN c0 + 8 + Len(t.nextWriteStatus) ELSE c0
      c2 == IF Len(t.nextWriteTwitter) > 0 THEN c1 + 9 + Len(t.nextWriteTwitter) ELSE c1
      c3 == IF Len(t.nextWriteTweet) > 0 THEN c2 + 7 + Len(t.nextWriteTweet) ELSE c2
      c4 == IF Len(t.nextWriteCreatedAt) > 0 THEN c3 + 12 + Len(t.nextWriteCreatedAt) ELSE c3
  IN  IF ~isnan(t.nextWriteLatitude) THEN c4 + 5 + 2 ELSE c4

\* the metadata part of getWriteFieldsContentLength, from the count c0 of the fields
MetaContentLen(t, c0) ==
  LET c1 == IF Len(t.nextWriteStatus) > 0 THEN c0 + 8 + Len(t.nextWriteStatus) ELSE c0
      c2 == IF Len(t.nextWriteTwitter) > 0 THEN c1 + 9 + Len(t.nextWriteTwitter) ELSE c1
      c3 == IF Len(t.nextWriteTweet) > 0 THEN c2 + 7 + Len(t.nextWriteTweet) ELSE c2
  IN  IF Len(t.nextWriteCreatedAt) > 0 THEN c3 + 12 + Len(t.nextWriteCreatedAt) ELSE c3

\* a getWriteFieldsContentLength that counts all 14 characters of "&headers=false"
getWriteFieldsContentLength_adds14(t) ==
  LET c4 == MetaContentLen(t, FieldsContentLen(t, 0, 0))
  IN  IF c4 = 0 THEN 0 ELSE c4 + 14

\* a getWriteFieldsContentLength without the early "return 0"
getWriteFieldsContentLength_noZeroReturn(t) ==
  MetaContentLen(t, FieldsContentLen(t, 0, 0)) + 13

\* getWriteFieldsContentLength()
getWriteFieldsContentLength(t) ==
  LET c4 == MetaContentLen(t, FieldsContentLen(t, 0, 0))
  IN  IF c4 = 0 THEN 0 ELSE c4 + 13

\* an AppendItem that puts "&" in front of every item, the first included
AppendItem_alwaysAmp(b, name, value) ==
  IF Len(value) > 0
  THEN [body |-> b.body \o "&" \o name \o value, fFirstItem |-> FALSE]
  ELSE b

\* one "if(value.length() > 0) { if(!fFirstItem) body += "&"; body += name;
\* body += value; fFirstItem = false; }" block of writeFields;
\* b is the pair [body, fFirstItem]
AppendItem(b, name, value) ==
  IF Len(value) > 0
  THEN [body |-> (IF ~b.fFirstItem THEN b.body \o "&" ELSE b.body) \o name \o value,
        fFirstItem |-> FALSE]
  ELSE b

RECURSIVE FieldsBody(_, _, _)
\* the loop over nextWriteField of writeFields, from iField on
FieldsBody(t, iField, b) ==
  IF iField >= FIELDNUM_MAX THEN b
  ELSE FieldsBody(t, iField + 1,
         AppendItem(b, "field" \o to_string(iField + 1) \o "=", t.nextWriteField[iField]))

\* the body string writeFields builds from the staged values
WriteFieldsBody(t) ==
  LET b0 == FieldsBody(t, 0, [body |-> "", fFirstItem |-> TRUE])
      b1 == AppendItem(b0, "status=", t.nextWriteStatus)
      b2 == AppendItem(b1, "twitter=", t.nextWriteTwitter)
      b3 == AppendItem(b2, "tweet=", t.nextWriteTweet)
      b4 == AppendItem(b3, "created_at=", t.nextWriteCreatedAt)
  IN  b4.body \o "&headers=false"

\* the POST request both write paths create
PostUpdate(body, writeAPIKey) ==
  [method |-> "POST", url |-> UPDATE_URL,
   headers |-> {<<"User-Agent", TS_USER_AGENT>>,
                <<"X-THINGSPEAKAPIKEY", writeAPIKey>>,
                <<"Content-Type", "application/x-www-form-urlencoded">>},
   body |-> body]

\* a writeFields that hands back the status code whatever the entry ID is
writeFieldsResult_ignoresEntryID(t1, request, response) ==
  [this |-> resetWriteFields(t1), ret |-> RetInt(response.status), req |-> request]

\* writeFields from the response on: the status code, the entry ID read from
\* the body, the second resetWriteFields(); t1 is the object after the first
writeFieldsResult(t1, request, response) ==
  LET status == response.status
      entryID == stoi(response.body)
  IN  IF status # OK_SUCCESS
      THEN [this |-> t1, ret |-> RetInt(status), req |-> request]
      ELSE IF ~entryID.ok
           THEN [this |-> t1, ret |-> Throw(entryID.exc), req |-> request]
           ELSE [this |-> resetWriteFields(t1),
                 ret |-> RetInt(IF entryID.val = 0 THEN ERR_NOT_INSERTED ELSE status),
                 req |-> request]

\* writeFields(channelNumber, writeAPIKey); response is what the transport
\* answers to the request
writeFields(t, channelNumber, writeAPIKey, response) ==
  LET contentLen == getWriteFieldsContentLength(t)
      body == WriteFieldsBody(t)
  IN  IF contentLen = 0
      THEN [this |-> t, ret |-> RetInt(ERR_SETFIELD_NOT_CALLED), req |-> NoRequest]
      ELSE writeFieldsResult(resetWriteFields(t), PostUpdate(body, writeAPIKey), response)

\* a writeRaw that gives up on a status other than 200 the way abortWriteRaw does
writeRawResult_abortsOnFailure(t, request, response) ==
  IF response.status # OK_SUCCESS
  THEN [this |-> resetWriteFields(t), ret |-> RetInt(ERR_UNEXPECTED_FAIL), req |-> request]
  ELSE [this |-> resetWriteFields(t),
        ret |-> RetInt(IF stoi(response.body).ok /\ stoi(response.body).val = 0
                       THEN ERR_NOT_INSERTED ELSE response.status),
        req |-> request]

\* a writeRaw that records the status code in lastReadStatus
writeRawResult_storesStatus(t, request, response) ==
  LET status == response.status
      entryID == stoi(response.body)
      t1 == [t EXCEPT !.lastReadStatus = status]
  IN  IF status # OK_SUCCESS
      THEN [this |-> t1, ret |-> RetInt(status), req |-> request]
      ELSE IF ~entryID.ok
           THEN [this |-> t1, ret |-> Throw(entryID.exc), req |-> request]
           ELSE [this |-> resetWriteFields(t1),
                 ret |-> RetInt(IF entryID.val = 0 THEN ERR_NOT_INSERTED ELSE status),
                 req |-> request]

\* writeRaw from the response on
writeRawResult(t, request, response) ==
  LET status == response.status
      entryID == stoi(response.body)
  IN  IF status # OK_SUCCESS
      THEN [this |-> t, ret |-> RetInt(status), req |-> request]
      ELSE IF ~entryID.ok
           THEN [this |-> t, ret |-> Throw(entryID.exc), req |-> request]
           ELSE [this |-> resetWriteFields(t),
                 ret |-> RetInt(IF entryID.val = 0 THEN ERR_NOT_INSERTED ELSE status),
                 req |-> request]

\* writeRaw(channelNumber, string postMessage, writeAPIKey)
writeRaw(t, channelNumber, postMessage, writeAPIKey, response) ==
  LET body == postMessage \o "&headers=false"
  IN  writeRawResult(t, PostUpdate(body, writeAPIKey), response)

\* a writeField without the length check
writeField_noLengthCheck(t, channelNumber, field, value, writeAPIKey, response) ==
  IF field < FIELDNUM_MIN \/ field > FIELDNUM_MAX
  THEN [this |-> t, ret |-> RetInt(ERR_INVALID_FIELD_NUM), req |-> NoRequest]
  ELSE writeRaw(t, channelNumber, "field" \o to_string(field) \o "=" \o value,
                writeAPIKey, response)

\* writeField(channelNumber, field, string value, writeAPIKey)
writeField(t, channelNumber, field, value, writeAPIKey, response) ==
  IF field < FIELDNUM_MIN \/ field > FIELDNUM_MAX
  THEN [this |-> t, ret |-> RetInt(ERR_INVALID_FIELD_NUM), req |-> NoRequest]
  ELSE IF Len(value) > FIELDLENGTH_MAX
       THEN [this |-> t, ret |-> RetInt(ERR_OUT_OF_RANGE), req |-> NoRequest]
       ELSE writeRaw(t, channelNumber, "field" \o to_string(field) \o "=" \o value,
                     writeAPIKey, response)

(* ---------------- reads --------------------------------------------------- *)
npos == -1

RECURSIVE find(_, _, _)
\* std::string::find(pat, from): 0-based position of the first occurrence
\* of pat in s at or after from, npos when there is none
find(s, pat, from) ==
  IF from + Len(pat) > Len(s) THEN npos
  ELSE IF SubSeq(s, from + 1, from + Len(pat)) = pat THEN from
       ELSE find(s, pat, from + 1)

\* a getJSONValueByKey that takes the rest of the text when no end quote follows
getJSONValueByKey_unterminated(textToSearch, key) ==
  LET searchPhrase == "\"" \o key \o "\":\""
      found == find(textToSearch, searchPhrase, 0)
      fromPosition == found + Len(searchPhrase)
      toPosition == find(textToSearch, "\"", fromPosition)
      erased == SubSeq(textToSearch, 1, toPosition)
  IN  IF Len(textToSearch) = 0 THEN ""
      ELSE IF found = npos THEN ""
           ELSE IF toPosition = npos
                THEN SubSeq(textToSearch, fromPosition + 1, Len(textToSearch))
                ELSE SubSeq(erased, fromPosition + 1, Len(erased))

\* getJSONValueByKey(textToSearch, key)
getJSONValueByKey(textToSearch, key) ==
  LET searchPhrase == "\"" \o key \o "\":\""
      found == find(textToSearch, searchPhrase, 0)
      fromPosition == found + Len(searchPhrase)
      toPosition == find(textToSearch, "\"", fromPosition)
      erased == SubSeq(textToSearch, 1, toPosition)
  IN  IF Len(textToSearch) = 0 THEN ""
      ELSE IF found = npos THEN ""
           ELSE IF toPosition = npos THEN ""
                ELSE SubSeq(erased, fromPosition + 1, Len(erased))

\* a readRaw that hands back the body whatever the status is
readRaw_keepsBodyOnFailure(t, channelNumber, URLSuffix, readAPIKey, response) ==
  [this |-> [t EXCEPT !.lastReadStatus = response.status],
   ret |-> RetStr(response.body),
   req |-> [method |-> "GET", url |-> CHANNELS_URL \o to_string(channelNumber) \o URLSuffix,
            headers |-> {<<"User-Agent", TS_USER_AGENT>>}
                        \cup (IF readAPIKey # NULL
                              THEN {<<"X-THINGSPEAKAPIKEY", readAPIKey>>} ELSE {}),
            body |-> ""]]

\* a readRaw that clears the staged values once it has the response
readRaw_resetsWriteFields(t, channelNumber, URLSuffix, readAPIKey, response) ==
  LET URL == CHANNELS_URL \o to_string(channelNumber) \o URLSuffix
      request == [method |-> "GET", url |-> URL,
                  headers |-> {<<"User-Agent", TS_USER_AGENT>>}
                              \cup (IF readAPIKey # NULL
                                    THEN {<<"X-THINGSPEAKAPIKEY", readAPIKey>>} ELSE {}),
                  body |-> ""]
      t1 == [resetWriteFields(t) EXCEPT !.lastReadStatus = response.status]
  IN  IF t1.lastReadStatus # OK_SUCCESS
      THEN [this |-> t1, ret |-> RetStr(""), req |-> request]
      ELSE [this |-> t1, ret |-> RetStr(response.body), req |-> request]

\* readRaw(channelNumber, URLSuffix, readAPIKey)
readRaw(t, channelNumber, URLSuffix, readAPIKey, response) ==
  LET URL == CHANNELS_URL \o to_string(channelNumber) \o URLSuffix
      request == [method |-> "GET", url |-> URL,
                  headers |-> {<<"User-Agent", TS_USER_AGENT>>}
                              \cup (IF readAPIKey # NULL
                                    THEN {<<"X-THINGSPEAKAPIKEY", readAPIKey>>} ELSE {}),
                  body |-> ""]
      t1 == [t EXCEPT !.lastReadStatus = response.status]
  IN  IF t1.lastReadStatus # OK_SUCCESS
      THEN [this |-> t1, ret |-> RetStr(""), req |-> request]
      ELSE [this |-> t1, ret |-> RetStr(response.body), req |-> request]

\* a readStringField whose upper bound check lets field 9 through
readStringField_acceptsNine(t, channelNumber, field, readAPIKey, response) ==
  IF field < FIELDNUM_MIN \/ field > FIELDNUM_MAX + 1
  THEN [this |-> [t EXCEPT !.lastReadStatus = ERR_INVALID_FIELD_NUM],
        ret |-> RetStr(""), req |-> NoRequest]
  ELSE readRaw(t, channelNumber, "/fields/" \o to_string(field) \o "/last", readAPIKey, response)

\* readStringField(channelNumber, field, readAPIKey)
readStringField(t, channelNumber, field, readAPIKey, response) ==
  IF field < FIELDNUM_MIN \/ field > FIELDNUM_MAX
  THEN [this |-> [t EXCEPT !.lastReadStatus = ERR_INVALID_FIELD_NUM],
        ret |-> RetStr(""), req |-> NoRequest]
  ELSE readRaw(t, channelNumber, "/fields/" \o to_string(field) \o "/last", readAPIKey, response)

\* readFloatField(channelNumber, field, readAPIKey)
readFloatField(t, channelNumber, field, readAPIKey, response) ==
  LET r == readStringField(t, channelNumber, field, readAPIKey, response)
      f == stof(r.ret.s)
  IN  [r EXCEPT !.ret = IF f.ok THEN RetFloat(f.lit) ELSE Throw(f.exc)]

\* readLongField(channelNumber, field, readAPIKey)
readLongField(t, channelNumber, field, readAPIKey, response) ==
  LET r == readStringField(t, channelNumber, field, readAPIKey, response)
      v == stoi(r.ret.s)
  IN  [r EXCEPT !.ret = IF v.ok THEN RetInt(v.val) ELSE Throw(v.exc)]

\* readIntField(channelNumber, field, readAPIKey)
readIntField(t, channelNumber, field, readAPIKey, response) ==
  readLongField(t, channelNumber, field, readAPIKey, response)

\* getLastReadStatus()
getLastReadStatus(t) == t.lastReadStatus

\* readStatus(channelNumber, readAPIKey)
readStatus(t, channelNumber, readAPIKey, response) ==
  LET r == readRaw(t, channelNumber, "/feeds/last.txt?status=true", readAPIKey, response)
  IN  IF getLastReadStatus(r.this) # OK_SUCCESS
      THEN [r EXCEPT !.ret = RetStr("")]
      ELSE [r EXCEPT !.ret = RetStr(getJSONValueByKey(r.ret.s, "status"))]

\* readCreatedAt(channelNumber, readAPIKey)
readCreatedAt(t, channelNumber, readAPIKey, response) ==
  LET r == readRaw(t, channelNumber, "/feeds/last.txt", readAPIKey, response)
  IN  IF getLastReadStatus(r.this) # OK_SUCCESS
      THEN [r EXCEPT !.ret = RetStr("")]
      ELSE [r EXCEPT !.ret = RetStr(getJSONValueByKey(r.ret.s, "created_at"))]

(* ---------------- inputs of the client program -------------------------- *)
\* field numbers the caller passes: one beyond each end of the valid range,
\* both ends and one inner slot
FieldNums == {FIELDNUM_MIN - 1, FIELDNUM_MIN, FIELDNUM_MIN + 1, FIELDNUM_MAX, FIELDNUM_MAX + 1}
\* field numbers passed to the single-request operations (writeField and the
\* field reads): both ends of the valid range and one beyond each
EdgeFieldNums == {FIELDNUM_MIN - 1, FIELDNUM_MIN, FIELDNUM_MAX, FIELDNUM_MAX + 1}
\* strings of 2, 4, ... 128 bytes, to build the strings at the length limit
X2 == "x" \o "x"
X4 == X2 \o X2
X8 == X4 \o X4
X16 == X8 \o X8
X32 == X16 \o X16
X64 == X32 \o X32
X128 == X64 \o X64
\* a string of FIELDLENGTH_MAX bytes and one of a byte more
Str255 == X128 \o X64 \o X32 \o X16 \o X8 \o X4 \o X2 \o "x"
Str256 == X128 \o X128
\* string values the caller stages with setField
Values == {"", "10", "abc", Str255, Str256}
\* string values the caller writes with writeField
WriteValues == {"10", Str255, Str256}
Statuses == {"", "10", Str256}
Twitters == {"", "me", Str256}
Tweets == {"", "hi", Str256}
CreatedAts == {"", "2021-01-01", Str256}
\* latitude / longitude / elevation arguments
Floats == {Float(52)}
Channels == {12345}
WriteKeys == {"WKEY"}
ReadKeys == {NULL, "RKEY"}
Nets == {"eth0"}
\* postMessage arguments of writeRaw
RawMessages == {"field1=7"}
\* URLSuffix arguments of readRaw
Suffixes == {"/feeds/last.txt"}
\* what the transport answers to a request: a status code and a body text
Responses ==
  {[status |-> OK_SUCCESS, body |-> b] :
       b \in {"", "0", "12345", "{\"created_at\":\"2021\",\"status\":\"ok\"}"}}
  \cup {[status |-> ERR_BADURL, body |-> "0"],
        [status |-> ERR_CONNECT_FAILED, body |-> ""],
        [status |-> ERR_TIMEOUT, body |-> ""]}
\* ... or nothing, when the call sends no request
Transport == Responses \cup {NoResponse}

(* ---------------- the state machine ------------------------------------- *)
Init == /\ nextWriteField = Constructed.nextWriteField
        /\ nextWriteLatitude = Constructed.nextWriteLatitude
        /\ nextWriteLongitude = Constructed.nextWriteLongitude
        /\ nextWriteElevation = Constructed.nextWriteElevation
        /\ nextWriteStatus = Constructed.nextWriteStatus
        /\ nextWriteTwitter = Constructed.nextWriteTwitter
        /\ nextWriteTweet = Constructed.nextWriteTweet
        /\ nextWriteCreatedAt = Constructed.nextWriteCreatedAt
        /\ lastReadStatus = Constructed.lastReadStatus
        /\ net = Constructed.net
        /\ op = "ThingSpeak"
        /\ ret = RetNone
        /\ req = NoRequest
        /\ resp = NoResponse
        /\ calls = 0

\* the client calls operation name; r is the outcome the operation computes
\* given that the transport answers response to the request it sends, if any
Call(name, r, response) ==
  /\ calls < MaxCalls
  /\ (r.req = NoRequest) <=> (response = NoResponse)
  /\ calls' = calls + 1
  /\ op' = name
  /\ Assign(r.this)
  /\ ret' = r.ret
  /\ req' = r.req
  /\ resp' = response

Begin == \E n \in Nets : Call("begin", begin(This, n), NoResponse)

SetField == \E field \in FieldNums, value \in Values :
              Call("setField", setField(This, field, value), NoResponse)

SetLatitude == \E f \in Floats : Call("setLatitude", setLatitude(This, f), NoResponse)

SetLongitude == \E f \in Floats : Call("setLongitude", setLongitude(This, f), NoResponse)

SetElevation == \E f \in Floats : Call("setElevation", setElevation(This, f), NoResponse)

SetStatus == \E status \in Statuses : Call("setStatus", setStatus(This, status), NoResponse)

SetTwitterTweet == \E twitter \in Twitters, tweet \in Tweets :
                     Call("setTwitterTweet", setTwitterTweet(This, twitter, tweet), NoResponse)

SetCreatedAt == \E createdAt \in CreatedAts :
                  Call("setCreatedAt", setCreatedAt(This, createdAt), NoResponse)

WriteFields == \E c \in Channels, k \in WriteKeys, response \in Transport :
                 Call("writeFields", writeFields(This, c, k, response), response)

WriteRaw == \E c \in Channels, m \in RawMessages, k \in WriteKeys, response \in Transport :
              Call("writeRaw", writeRaw(This, c, m, k, response), response)

WriteField == \E c \in Channels, field \in EdgeFieldNums, value \in WriteValues, k \in WriteKeys,
                 response \in Transport :
                Call("writeField", writeField(This, c, field, value, k, response), response)

ReadRaw == \E c \in Channels, u \in Suffixes, k \in ReadKeys, response \in Transport :
             Call("readRaw", readRaw(This, c, u, k, response), response)

ReadStringField == \E c \in Channels, field \in EdgeFieldNums, k \in ReadKeys, response \in Transport :
                     Call("readStringField", readStringField(This, c, field, k, response), response)

ReadFloatField == \E c \in Channels, field \in EdgeFieldNums, k \in ReadKeys, response \in Transport :
                    Call("readFloatField", readFloatField(This, c, field, k, response), response)

ReadLongField == \E c \in Channels, field \in EdgeFieldNums, k \in ReadKeys, response \in Transport :
                   Call("readLongField", readLongField(This, c, field, k, response), response)

ReadIntField == \E c \in Channels, field \in EdgeFieldNums, k \in ReadKeys, response \in Transport :
                  Call("readIntField", readIntField(This, c, field, k, response), response)

ReadStatus == \E c \in Channels, k \in ReadKeys, response \in Transport :
                Call("readStatus", readStatus(This, c, k, response), response)

ReadCreatedAt == \E c \in Channels, k \in ReadKeys, response \in Transport :
                   Call("readCreatedAt", readCreatedAt(This, c, k, response), response)

Next == \/ Begin
        \/ SetField
        \/ SetLatitude
        \/ SetLongitude
        \/ SetElevation
        \/ SetStatus
        \/ SetTwitterTweet
        \/ SetCreatedAt
        \/ WriteFields
        \/ WriteRaw
        \/ WriteField
        \/ ReadRaw
        \/ ReadStringField
        \/ ReadFloatField
        \/ ReadLongField
        \/ ReadIntField
        \/ ReadStatus
        \/ ReadCreatedAt

Spec == Init /\ [][Next]_vars

(* ---------------- the reads of JSON feeds -------------------------------- *)
\* pieces of the feed texts the server answers to readStatus and readCreatedAt
JsonTokens == {"\"status\":\"", "\"created_at\":\"", "ok", "\"", ",", "_"}

\* the feed texts: up to three pieces in a row, and some whole feeds
JsonTexts ==
  {""} \cup JsonTokens
       \cup {a \o b : a \in JsonTokens, b \in JsonTokens}
       \cup {a \o b \o c : a \in JsonTokens, b \in JsonTokens, c \in JsonTokens}
       \cup {"{\"status\":\"ok\",\"x\":\"y\"}",
             "{\"x\":\"y\"}",
             "{\"status\":null}",
             "{\"last_status\":\"no\",\"status\":\"ok\"}",
             "{\"created_at\":\"2021-01-01T00:00:00Z\",\"entry_id\":1,\"status\":\"ok\"}",
             "{\"status\":\"\",\"created_at\":\"\"}"}

\* the server answers a read with 200 and a feed text
JsonResponses == [status : {OK_SUCCESS}, body : JsonTexts]

JsonReadStatus == \E c \in Channels, k \in ReadKeys, response \in JsonResponses :
                    Call("readStatus", readStatus(This, c, k, response), response)

JsonReadCreatedAt == \E c \in Channels, k \in ReadKeys, response \in JsonResponses :
                       Call("readCreatedAt", readCreatedAt(This, c, k, response), response)

NextJson == \/ JsonReadStatus
            \/ JsonReadCreatedAt

SpecJson == Init /\ [][NextJson]_vars

(* ---------------- properties --------------------------------------------- *)
WriteOps == {"writeFields", "writeRaw", "writeField"}
StringReadOps == {"readRaw", "readStringField", "readStatus", "readCreatedAt"}
NumericReadOps == {"readIntField", "readLongField", "readFloatField"}

\* the call just made came back with a value (it was not left by an exception)
Returned == ret.kind \in {"int", "string", "bool", "float"}

\* every staged string of the object is empty
StringsEmpty ==
  /\ \A iField \in FieldIdx : nextWriteField[iField] = ""
  /\ nextWriteStatus = ""
  /\ nextWriteTwitter = ""
  /\ nextWriteTweet = ""
  /\ nextWriteCreatedAt = ""

\* at least one field / status / twitter / tweet / createdAt value is staged
AnyStaged == ~StringsEmpty

\* C1: after writeFields returns, on every outcome (a 200 with a zero or
\* non-zero entry ID, any other status, the SetFieldNotCalled abort), the 8
\* field slots, status, twitter, tweet and createdAt are empty and
\* getWriteFieldsContentLength() is 0.
C1_WriteFieldsClearsStrings ==
  (op = "writeFields" /\ Returned)
    => (StringsEmpty /\ getWriteFieldsContentLength(This) = 0)

\* a writeFields that sent staged values, was answered a timeout, and left nothing staged
C1_Witness ==
  /\ op = "writeFields"
  /\ ret = RetInt(ERR_TIMEOUT)
  /\ req.method = "POST"
  /\ req.body = "field8=abc&status=10&headers=false"
  /\ StringsEmpty

\* C2: writeRaw and writeField leave the staged multi-field buffer unchanged
\* on every transport outcome.
C2_RawWriteKeepsBuffer ==
  [][(op' \in {"writeRaw", "writeField"} /\ calls' # calls)
       => Pending(This)' = Pending(This)]_vars

\* C3: after writeFields returns with any outcome, the SetFieldNotCalled
\* abort included, the whole pending update equals the initial empty record
\* (latitude, longitude and elevation are NAN again).
C3_WriteFieldsClearsAll ==
  (op = "writeFields" /\ Returned) => Pending(This) = Pending(Constructed)

\* C4: every write operation returns an integer status code for every
\* response of the transport and is never left by an exception.
C4_WritesReturnInt ==
  op \in WriteOps => ret.kind = "int"

\* C5: every read operation returns a value and is never left by an
\* exception; when the status is not 200 or the field number is invalid the
\* string reads return "" and the numeric reads return 0.
C5_ReadsReturnValue ==
  (op \in StringReadOps \cup NumericReadOps)
    => /\ Returned
       /\ lastReadStatus # OK_SUCCESS
            => /\ op \in StringReadOps => ret = RetStr("")
               /\ op \in {"readIntField", "readLongField"} => ret = RetInt(0)
               /\ op = "readFloatField" => (ret.kind = "float" /\ ret.s \in {"0", "0.0"})

\* C6: whenever at least one string value is staged,
\* getWriteFieldsContentLength() equals the length of the body writeFields
\* builds from the same state, "&headers=false" included.
C6_ContentLengthIsBodyLength ==
  AnyStaged => getWriteFieldsContentLength(This) = Len(WriteFieldsBody(This))

\* three values staged: two fields and the tweet pair of setTwitterTweet
C6_Witness ==
  /\ nextWriteField[0] = "10"
  /\ nextWriteField[7] = "abc"
  /\ nextWriteTwitter = "me"
  /\ nextWriteTweet = "hi"
  /\ getWriteFieldsContentLength(This) = 54

\* the terms name=value of a pending update in wire order, the empty ones left out
Terms(p) ==
  LET all == [i \in 1..12 |->
                IF i <= 8 THEN <<"field" \o CharAt("12345678", i) \o "=", p.nextWriteField[i - 1]>>
                ELSE IF i = 9 THEN <<"status=", p.nextWriteStatus>>
                ELSE IF i = 10 THEN <<"twitter=", p.nextWriteTwitter>>
                ELSE IF i = 11 THEN <<"tweet=", p.nextWriteTweet>>
                ELSE <<"created_at=", p.nextWriteCreatedAt>>]
      kept == SelectSeq(all, LAMBDA x : x[2] # "")
  IN  [i \in 1..Len(kept) |-> kept[i][1] \o kept[i][2]]

RECURSIVE JoinAmp(_)
\* the strings of a sequence joined by single "&"
JoinAmp(terms) ==
  IF Len(terms) = 0 THEN ""
  ELSE IF Len(terms) = 1 THEN terms[1]
       ELSE terms[1] \o "&" \o JoinAmp(Tail(terms))

\* C7: the body writeFields sends is the terms fieldN=value of the staged
\* non-empty fields in ascending index order, then status=, twitter=,
\* tweet=, created_at= (each only if non-empty), joined by single "&" with
\* no leading "&", followed by "&headers=false"; fields 1 = "10" and
\* 2 = "abc" alone give exactly field1=10&field2=abc&headers=false.
C7_BodyFormat ==
  [][(op' = "writeFields" /\ calls' # calls /\ req'.method # "none")
       => /\ req'.body = JoinAmp(Terms(Pending(This))) \o "&headers=false"
          /\ (/\ Pending(This) = [Pending(Constructed) EXCEPT
                                    !.nextWriteField[0] = "10", !.nextWriteField[1] = "abc"])
               => req'.body = "field1=10&field2=abc&headers=false"]_vars

\* fields 1 and 2 staged (in either order) and sent by writeFields
C7_Witness ==
  /\ op = "writeFields"
  /\ req.method = "POST"
  /\ req.body = "field1=10&field2=abc&headers=false"

\* C8: with no string value staged getWriteFieldsContentLength() is 0 and
\* writeFields returns SetFieldNotCalled (-210) without sending a request.
C8_NothingStaged ==
  /\ [](StringsEmpty => getWriteFieldsContentLength(This) = 0)
  /\ [][(StringsEmpty /\ op' = "writeFields" /\ calls' # calls)
          => (ret' = RetInt(-210) /\ req' = NoRequest /\ resp' = NoResponse)]_vars

\* writeFields called on the freshly constructed object
C8_Witness ==
  /\ op = "writeFields"
  /\ calls = 1
  /\ ret = RetInt(ERR_SETFIELD_NOT_CALLED)
  /\ req = NoRequest

\* C9: when the transport answers a write with a status code other than
\* 200, the write operation returns exactly that code.
C9_FailureStatusVerbatim ==
  (op \in WriteOps /\ req.method = "POST" /\ resp.status # 200)
    => ret = RetInt(resp.status)

\* a writeField that could not connect
C9_Witness ==
  /\ op = "writeField"
  /\ req.method = "POST"
  /\ resp.status = -301
  /\ ret = RetInt(-301)

\* C10: when the transport answers a write with status 200, the result is
\* NotInserted (-401) if the body is the entry ID 0 and 200 if it is a
\* non-zero entry ID.
C10_EntryIdDecides ==
  (op \in WriteOps /\ req.method = "POST" /\ resp.status = 200)
    => /\ resp.body = "0" => ret = RetInt(-401)
       /\ resp.body = "12345" => ret = RetInt(200)

\* a writeFields that the service answered with entry ID 0
C10_Witness ==
  /\ op = "writeFields"
  /\ req.method = "POST"
  /\ resp = [status |-> 200, body |-> "0"]
  /\ ret = RetInt(ERR_NOT_INSERTED)

\* the client can make a further call in this state
CanCall == calls < MaxCalls

\* C11: setField(index, value) returns InvalidFieldNum (-201) exactly when
\* index is outside [1,8], returns OutOfRange (-101) when the index is valid
\* and value is longer than 255 bytes (256 fails, 255 succeeds), and in both
\* failure cases leaves the whole staged buffer unchanged.
C11_SetFieldValidation ==
  CanCall =>
    \A field \in FieldNums, value \in Values :
      LET r == setField(This, field, value)
      IN  /\ (r.ret = RetInt(-201)) <=> (field < 1 \/ field > 8)
          /\ (field \in 1..8 /\ Len(value) > 255) => r.ret = RetInt(-101)
          /\ (field \in 1..8 /\ Len(value) <= 255) => r.ret = RetInt(200)
          /\ r.ret \in {RetInt(-201), RetInt(-101)} => r.this = This
          /\ r.req = NoRequest

\* a 255-byte value was accepted for field 8, then a setField was refused
\* with OutOfRange and the value is still staged
C11_Witness ==
  /\ op = "setField"
  /\ ret = RetInt(ERR_OUT_OF_RANGE)
  /\ nextWriteField[7] = Str255
  /\ Len(Str255) = 255
  /\ Len(Str256) = 256

\* C12: setStatus, setCreatedAt and setTwitterTweet return OutOfRange (-101)
\* and leave the whole staged buffer unchanged if any string argument is
\* longer than 255 bytes (setTwitterTweet stores neither string when either
\* is too long); otherwise they store every argument and return 200.
C12_MetadataSettersAtomic ==
  CanCall =>
    /\ \A status \in Statuses :
         LET r == setStatus(This, status)
         IN  IF Len(status) > 255
             THEN r.ret = RetInt(-101) /\ r.this = This
             ELSE r.ret = RetInt(200) /\ r.this = [This EXCEPT !.nextWriteStatus = status]
    /\ \A createdAt \in CreatedAts :
         LET r == setCreatedAt(This, createdAt)
         IN  IF Len(createdAt) > 255
             THEN r.ret = RetInt(-101) /\ r.this = This
             ELSE r.ret = RetInt(200) /\ r.this = [This EXCEPT !.nextWriteCreatedAt = createdAt]
    /\ \A twitter \in Twitters, tweet \in Tweets :
         LET r == setTwitterTweet(This, twitter, tweet)
         IN  IF Len(twitter) > 255 \/ Len(tweet) > 255
             THEN r.ret = RetInt(-101) /\ r.this = This
             ELSE /\ r.ret = RetInt(200)
                  /\ r.this = [This EXCEPT !.nextWriteTwitter = twitter, !.nextWriteTweet = tweet]

\* a twitter/tweet pair was staged, then a setTwitterTweet was refused and
\* the pair is still the staged one
C12_Witness ==
  /\ op = "setTwitterTweet"
  /\ ret = RetInt(ERR_OUT_OF_RANGE)
  /\ nextWriteTwitter = "me"
  /\ nextWriteTweet = "hi"

ReadOps == StringReadOps \cup NumericReadOps

\* C13: readRaw and the reads built on it store the transport's status code
\* into lastReadStatus on every call that sends a request; readRaw (and
\* readStringField, which hands its result on) returns the response body when
\* that status is 200 and the empty string for every other status, as do
\* readStatus and readCreatedAt for every other status.
C13_ReadRawStatusAndBody ==
  /\ op = "readRaw" => req.method = "GET"
  /\ (op \in ReadOps /\ req.method = "GET")
       => /\ lastReadStatus = resp.status
          /\ op \in {"readRaw", "readStringField"}
               => ret = RetStr(IF resp.status = 200 THEN resp.body ELSE "")
          /\ (op \in {"readStatus", "readCreatedAt"} /\ resp.status # 200)
               => ret = RetStr("")

\* a readRaw answered 404 with a body: the body is dropped, the status kept
C13_Witness ==
  /\ op = "readRaw"
  /\ resp = [status |-> 404, body |-> "0"]
  /\ ret = RetStr("")
  /\ lastReadStatus = 404

\* C14: in every reachable state each staged string (the 8 field slots,
\* status, twitter, tweet, createdAt) is at most 255 bytes long.
C14_StagedStringsBounded ==
  /\ \A iField \in FieldIdx : Len(nextWriteField[iField]) <= 255
  /\ Len(nextWriteStatus) <= 255
  /\ Len(nextWriteTwitter) <= 255
  /\ Len(nextWriteTweet) <= 255
  /\ Len(nextWriteCreatedAt) <= 255

\* a field holds a 255-byte value and a 256-byte status has just been refused
C14_Witness ==
  /\ op = "setStatus"
  /\ ret = RetInt(ERR_OUT_OF_RANGE)
  /\ Len(nextWriteField[0]) = 255
  /\ nextWriteStatus = ""

\* C15: a successful setField(i, v) sets slot i to v, whatever was staged
\* there, returns 200, and leaves the other 7 field slots, status, twitter,
\* tweet, createdAt, latitude / longitude / elevation and lastReadStatus
\* unchanged.
C15_SetFieldFrame ==
  CanCall =>
    \A field \in FieldNums \cap (1..8), value \in {v \in Values : Len(v) <= 255} :
      LET r == setField(This, field, value)
      IN  /\ r.ret = RetInt(200)
          /\ r.this = [This EXCEPT !.nextWriteField =
                         [i \in 0..7 |-> IF i = field - 1 THEN value ELSE nextWriteField[i]]]

\* a setField that followed a failed read and a setStatus: the value is in
\* its slot, the status and lastReadStatus are as they were
C15_Witness ==
  /\ op = "setField"
  /\ ret = RetInt(OK_SUCCESS)
  /\ nextWriteField[1] = "abc"
  /\ nextWriteStatus = "10"
  /\ lastReadStatus = ERR_TIMEOUT

\* C16: writeField validates before any network activity: it returns -201
\* for a field outside [1,8] or -101 for a value longer than 255 bytes
\* without sending a request and without changing the staged buffer;
\* otherwise it sends exactly the body field<N>=<value>&headers=false.
C16_WriteFieldValidation ==
  CanCall =>
    \A field \in EdgeFieldNums, value \in WriteValues, response \in Responses :
      \A c \in Channels, k \in WriteKeys :
        LET r == writeField(This, c, field, value, k, response)
        IN  IF field < 1 \/ field > 8
            THEN r.ret = RetInt(-201) /\ r.req = NoRequest /\ r.this = This
            ELSE IF Len(value) > 255
                 THEN r.ret = RetInt(-101) /\ r.req = NoRequest /\ r.this = This
                 ELSE /\ r.req.method = "POST"
                      /\ r.req.body = "field" \o CharAt("12345678", field) \o "=" \o value
                                        \o "&headers=false"

\* a writeField refused for its 256-byte value while a field is staged
C16_Witness ==
  /\ op = "writeField"
  /\ ret = RetInt(ERR_OUT_OF_RANGE)
  /\ req = NoRequest
  /\ resp = NoResponse
  /\ nextWriteField[0] = "10"

\* the object with latitude, longitude and elevation unset, and with all three set
WithoutLocation(t) ==
  [t EXCEPT !.nextWriteLatitude = NAN, !.nextWriteLongitude = NAN, !.nextWriteElevation = NAN]
WithLocation(t) ==
  [t EXCEPT !.nextWriteLatitude = Float(52), !.nextWriteLongitude = Float(13),
            !.nextWriteElevation = Float(34)]

OtherReadStatus(t) ==
  [t EXCEPT !.lastReadStatus = IF @ = OK_SUCCESS THEN ERR_INVALID_FIELD_NUM ELSE OK_SUCCESS]

\* C18: every setter and every write operation, on every outcome, leaves
\* lastReadStatus unchanged, and no write result depends on its value
\* (only the reads and begin assign it).
C18_LastReadStatusFrame ==
  CanCall =>
    /\ \A field \in FieldNums, value \in Values :
         setField(This, field, value).this.lastReadStatus = lastReadStatus
    /\ \A f \in Floats :
         /\ setLatitude(This, f).this.lastReadStatus = lastReadStatus
         /\ setLongitude(This, f).this.lastReadStatus = lastReadStatus
         /\ setElevation(This, f).this.lastReadStatus = lastReadStatus
    /\ \A status \in Statuses : setStatus(This, status).this.lastReadStatus = lastReadStatus
    /\ \A twitter \in Twitters, tweet \in Tweets :
         setTwitterTweet(This, twitter, tweet).this.lastReadStatus = lastReadStatus
    /\ \A createdAt \in CreatedAts :
         setCreatedAt(This, createdAt).this.lastReadStatus = lastReadStatus
    /\ \A c \in Channels, k \in WriteKeys, response \in Responses :
         /\ LET r == writeFields(This, c, k, response)
            IN  /\ r.this.lastReadStatus = lastReadStatus
                /\ writeFields(OtherReadStatus(This), c, k, response).ret = r.ret
         /\ \A m \in RawMessages :
              LET r == writeRaw(This, c, m, k, response)
              IN  /\ r.this.lastReadStatus = lastReadStatus
                  /\ writeRaw(OtherReadStatus(This), c, m, k, response).ret = r.ret
         /\ \A field \in EdgeFieldNums, value \in WriteValues :
              LET r == writeField(This, c, field, value, k, response)
              IN  /\ r.this.lastReadStatus = lastReadStatus
                  /\ writeField(OtherReadStatus(This), c, field, value, k, response).ret = r.ret

\* a writeFields that succeeded after a read with an invalid field number:
\* lastReadStatus still says InvalidFieldNum
C18_Witness ==
  /\ op = "writeFields"
  /\ ret = RetInt(OK_SUCCESS)
  /\ lastReadStatus = ERR_INVALID_FIELD_NUM

\* C20: begin() always returns true and sends no request, and after it, as
\* right after construction, the staged buffer is empty (content length 0,
\* latitude / longitude / elevation unset) and getLastReadStatus() is 200.
C20_BeginResets ==
  op \in {"begin", "ThingSpeak"}
    => /\ op = "begin" => (ret.kind = "bool" /\ ret.i = 1)
       /\ req = NoRequest
       /\ resp = NoResponse
       /\ StringsEmpty
       /\ getWriteFieldsContentLength(This) = 0
       /\ isnan(nextWriteLatitude) /\ isnan(nextWriteLongitude) /\ isnan(nextWriteElevation)
       /\ getLastReadStatus(This) = 200

\* begin called as the third call, after two earlier calls
C20_Witness ==
  /\ op = "begin"
  /\ calls = 3
  /\ net = "eth0"
  /\ lastReadStatus = 200
  /\ StringsEmpty

\* the positions (1-based) at which pat occurs in text
Occurrences(text, pat) ==
  {i \in 1..(Len(text) - Len(pat) + 1) : SubSeq(text, i, i + Len(pat) - 1) = pat}

Least(S) == CHOOSE x \in S : \A y \in S : x <= y

\* the characters between the first "<key>":" of text and the next double
\* quote after it; empty when there is no such pattern or no such quote
ValueOfKey(text, key) ==
  LET pat == "\"" \o key \o "\":\""
      occ == Occurrences(text, pat)
      start == Least(occ) + Len(pat)
      quotes == {j \in start..Len(text) : SubSeq(text, j, j) = "\""}
  IN  IF occ = {} THEN ""
      ELSE IF quotes = {} THEN ""
           ELSE SubSeq(text, start, Least(quotes) - 1)

\* the key each JSON read looks up
KeyOf(name) == IF name = "readStatus" THEN "status" ELSE "created_at"

\* C19: getJSONValueByKey(text, key) returns the characters between the first
\* occurrence of "<key>":" and the next double quote after it (ok for
\* {"status":"ok","x":"y"} with key status), and the empty string when the
\* text is empty, the pattern is absent or no closing quote follows.
C19_JSONValueByKey ==
  /\ (op \in {"readStatus", "readCreatedAt"} /\ resp.status = OK_SUCCESS)
       => /\ ret = RetStr(ValueOfKey(resp.body, KeyOf(op)))
          /\ ret = RetStr(getJSONValueByKey(resp.body, KeyOf(op)))
          /\ resp.body = "" => ret = RetStr("")
  /\ getJSONValueByKey("{\"status\":\"ok\",\"x\":\"y\"}", "status") = "ok"
  /\ getJSONValueByKey("{\"status\":\"ok\",\"x\":\"y\"}", "x") = "y"
  /\ getJSONValueByKey("{\"status\":\"ok\",\"x\":\"y\"}", "created_at") = ""
  /\ getJSONValueByKey("\"status\":\"ok", "status") = ""
  /\ getJSONValueByKey("", "status") = ""

\* readStatus took ok out of {"status":"ok","x":"y"}
C19_Witness ==
  /\ op = "readStatus"
  /\ resp = [status |-> OK_SUCCESS, body |-> "{\"status\":\"ok\",\"x\":\"y\"}"]
  /\ ret = RetStr("ok")

\* readStatus met a value with no closing quote and returned the empty string
C19_WitnessUnterminated ==
  /\ op = "readStatus"
  /\ resp = [status |-> OK_SUCCESS, body |-> "\"status\":\"ok"]
  /\ ret = RetStr("")

\* C21: readStringField and the numeric reads built on it, called with a
\* field number outside [1,8], issue no transport request and set
\* lastReadStatus to InvalidFieldNum (-201), changing nothing else;
\* readStringField then returns the empty string. With a field number in
\* [1,8] each of them sends a request.
C21_ReadInvalidField ==
  CanCall =>
    \A c \in Channels, k \in ReadKeys, response \in Responses :
      /\ \A field \in {n \in EdgeFieldNums : n < 1 \/ n > 8} :
           LET s == readStringField(This, c, field, k, response)
               f == readFloatField(This, c, field, k, response)
               l == readLongField(This, c, field, k, response)
               i == readIntField(This, c, field, k, response)
               refused == [This EXCEPT !.lastReadStatus = -201]
           IN  /\ s.req = NoRequest /\ s.this = refused /\ s.ret = RetStr("")
               /\ f.req = NoRequest /\ f.this = refused
               /\ l.req = NoRequest /\ l.this = refused
               /\ i.req = NoRequest /\ i.this = refused
      /\ \A field \in EdgeFieldNums \cap (1..8) :
           LET s == readStringField(This, c, field, k, response)
           IN  s.req.method = "GET" /\ s.this.lastReadStatus = response.status

\* a field is staged and readStringField has just refused a field number
C21_Witness ==
  /\ op = "readStringField"
  /\ req = NoRequest
  /\ resp = NoResponse
  /\ ret = RetStr("")
  /\ lastReadStatus = ERR_INVALID_FIELD_NUM
  /\ nextWriteField[0] = "10"

\* the statuses a read can leave in lastReadStatus
ReadStatuses == {OK_SUCCESS, ERR_BADURL, ERR_INVALID_FIELD_NUM, ERR_CONNECT_FAILED, ERR_TIMEOUT}

\* C22: no read operation (readRaw, readStringField, readStatus,
\* readCreatedAt, readFloatField, readLongField, readIntField) modifies the
\* staged buffer, on any outcome: a read changes lastReadStatus and nothing
\* else of the object, and neither the body writeFields would send nor the
\* value of getWriteFieldsContentLength() depends on lastReadStatus.
C22_ReadsKeepStaged ==
  /\ [][(op' \in ReadOps /\ calls' # calls)
          => /\ Pending(This)' = Pending(This)
             /\ This' = [This EXCEPT !.lastReadStatus = lastReadStatus']
             /\ lastReadStatus' \in ReadStatuses]_vars
  /\ [](CanCall =>
          \A st \in ReadStatuses :
            LET after == [This EXCEPT !.lastReadStatus = st]
            IN  /\ WriteFieldsBody(after) = WriteFieldsBody(This)
                /\ getWriteFieldsContentLength(after) = getWriteFieldsContentLength(This))

\* a field and a status were staged, then a read came back with 404: both
\* are still staged
C22_Witness ==
  /\ op \in ReadOps
  /\ resp.status = ERR_BADURL
  /\ lastReadStatus = ERR_BADURL
  /\ nextWriteField[0] = "10"
  /\ nextWriteStatus = "10"

\* C23: setField(i, "") with a valid index returns 200 and un-stages slot
\* i, leaving the object as if the slot had never been set: if no non-empty
\* string is staged then, the next writeFields returns SetFieldNotCalled
\* (-210) without a request, and otherwise the body it sends has no term fieldi=.
C23_EmptyValueUnstages ==
  CanCall =>
    \A field \in FieldNums \cap (1..8) :
      LET r == setField(This, field, "")
          unset == [This EXCEPT !.nextWriteField[field - 1] = Constructed.nextWriteField[field - 1]]
          terms == Terms(Pending(r.this))
          body == JoinAmp(terms) \o "&headers=false"
          name == "field" \o CharAt("12345678", field) \o "="
      IN  /\ r.ret = RetInt(200)
          /\ r.req = NoRequest
          /\ r.this = unset
          /\ \A j \in 1..Len(terms) : SubSeq(terms[j], 1, Len(name)) # name
          /\ \A c \in Channels, k \in WriteKeys, response \in Responses :
               LET w == writeFields(r.this, c, k, response)
               IN  IF terms = << >>
                   THEN w.ret = RetInt(-210) /\ w.req = NoRequest
                   ELSE w.req.method = "POST" /\ w.req.body = body

\* setField has just returned 200 and no string is staged, so its value was
\* empty; two calls were made before it
C23_Witness ==
  /\ op = "setField"
  /\ ret = RetInt(OK_SUCCESS)
  /\ StringsEmpty
  /\ calls = 3

====
